---- MODULE Spec2Model ----
(***************************************************************************)
(* Persistent trie of trie-ts (src/src/lib/trie.ts).                       *)
(*                                                                         *)
(* The JavaScript heap is modelled explicitly, because the code builds its *)
(* results by allocating objects and then assigning into them:             *)
(*   nodes : the Trie objects, by address 1..Len(nodes)                    *)
(*   objs  : the `children` records, by address 1..Len(objs); a record is  *)
(*           a sequence of [k |-> char, v |-> node address] in JavaScript  *)
(*           property order                                                *)
(* A Trie object holds the address of its children record, so two Trie     *)
(* objects made by an object spread share one children record, as in the   *)
(* code.  A word is a sequence of one-character strings.                   *)
(***************************************************************************)
EXTENDS Integers, Sequences, FiniteSets, TLC

VARIABLES nodes, objs, tries, last, nops, built

vars == <<nodes, objs, tries, last, nops, built>>

(***************************************************************************)
(* Bounds and input sets                                                   *)
(***************************************************************************)
\* number of add / remove / query calls in one run
MaxOps == 3
\* number of arguments given to of / fromList
MaxArgs == 3
\* number of read-only calls made on the tries that of / fromList returned
MaxCtorQueries == 1

\* words given to add and remove
Words ==
  { <<>>, <<"a">>, <<"b">>, <<"b", "a">>, <<"b", "b", "b">> }

\* words asked of has, search and hasPrefix
Queries ==
  Words \cup { <<"b", "b">>, <<"a", "b">>, <<"b", "a", "b">>,
               <<"b", "b", "b", "a">> }

\* suffixes appended to a word before asking hasPrefix
Suffixes == { <<>>, <<"a">>, <<"b">>, <<"a", "b">> }

(***************************************************************************)
(* Heap primitives                                                         *)
(***************************************************************************)
\* the address that stands for "no object" (undefined)
Null == 0

\* the address of the exported constant emptyTrie and of its children record
emptyTrie == 1

emptyTrieNode ==
  [children |-> 1, endOfWord |-> FALSE, word |-> <<>>, root |-> TRUE,
   parent |-> Null, char |-> ""]

\* the heap right after the module is loaded: emptyTrie alone
InitHeap == [nodes |-> <<emptyTrieNode>>, objs |-> << <<>> >>]

Last(H) == Len(H.nodes)

AllocNode(H, rec) == [H EXCEPT !.nodes = Append(@, rec)]

Kids(H, n) == H.objs[H.nodes[n].children]

\* trie.children[char]
Lookup(kids, c) ==
  IF \E i \in 1..Len(kids) : kids[i].k = c
  THEN kids[CHOOSE i \in 1..Len(kids) : kids[i].k = c].v
  ELSE Null

\* JavaScript array-index keys ("0".."9" among one-character keys) come first
\* in property order, ascending; the other keys follow in insertion order
DigitVal(c) ==
  CASE c = "0" -> 0 [] c = "1" -> 1 [] c = "2" -> 2 [] c = "3" -> 3
    [] c = "4" -> 4 [] c = "5" -> 5 [] c = "6" -> 6 [] c = "7" -> 7
    [] c = "8" -> 8 [] c = "9" -> 9 [] OTHER -> -1

IsIndexKey(c) == DigitVal(c) >= 0

\* position before which a new key c is placed in the record kids
InsertPos(kids, c) ==
  IF IsIndexKey(c)
  THEN 1 + Cardinality({i \in 1..Len(kids) :
                          IsIndexKey(kids[i].k) /\ DigitVal(kids[i].k) < DigitVal(c)})
  ELSE Len(kids) + 1

\* kids[c] = v done as a removal followed by an insertion: an existing key
\* moves behind the others
SetKeyMoveLast(kids, c, v) ==
  SelectSeq(kids, LAMBDA e : e.k # c) \o <<[k |-> c, v |-> v]>>

\* the record kids after kids[c] = v : an existing key keeps its place
SetKey(kids, c, v) ==
  IF \E i \in 1..Len(kids) : kids[i].k = c
  THEN [i \in 1..Len(kids) |-> IF kids[i].k = c THEN [k |-> c, v |-> v] ELSE kids[i]]
  ELSE LET p == InsertPos(kids, c)
       IN SubSeq(kids, 1, p - 1) \o <<[k |-> c, v |-> v]>> \o SubSeq(kids, p, Len(kids))

\* the record kids after delete kids[c]
DeleteKey(kids, c) == SelectSeq(kids, LAMBDA e : e.k # c)

\* node.children[char] = v : assignment into the existing children record
AssignChild(H, n, c, v) ==
  [H EXCEPT !.objs[H.nodes[n].children] = SetKey(@, c, v)]

\* delete node.children[char] : removal from the existing children record
DeleteChild(H, n, c) ==
  [H EXCEPT !.objs[H.nodes[n].children] = DeleteKey(@, c)]

RECURSIVE CopyValues(_, _, _)
\* a copy of every child of the record kids from the i-th entry on: the heap
\* afterwards and the entries that hold the copies
CopyValues(H, kids, i) ==
  IF i > Len(kids) THEN [h |-> H, kids |-> <<>>]
  ELSE LET H1 == [nodes |-> Append(H.nodes, [H.nodes[kids[i].v] EXCEPT
                                               !.children = Len(H.objs) + 1]),
                  objs  |-> Append(H.objs, Kids(H, kids[i].v))]
           rest == CopyValues(H1, kids, i + 1)
       IN [h |-> rest.h,
           kids |-> <<[k |-> kids[i].k, v |-> Len(H1.nodes)]>> \o rest.kids]

\* copyTrie that clones one level too many: the children are copied as well
copyTrieDeep(H, t) ==
  LET c == CopyValues(H, Kids(H, t), 1)
  IN [nodes |-> Append(c.h.nodes, [H.nodes[t] EXCEPT !.children = Len(c.h.objs) + 1]),
      objs  |-> Append(c.h.objs, c.kids)]

\* copyTrie without the copy of the children record: { ...trie } alone
copyTrieShallow(H, t) == [H EXCEPT !.nodes = Append(@, H.nodes[t])]

\* copyTrie: a new object with the same fields and a new children record
\* holding the same entries; the copy is Last of the heap returned
copyTrie(H, t) ==
  [nodes |-> Append(H.nodes, [H.nodes[t] EXCEPT !.children = Len(H.objs) + 1]),
   objs  |-> Append(H.objs, Kids(H, t))]

isRoot(H, n) == H.nodes[n].root = TRUE

hasChildren(H, n) == Len(Kids(H, n)) > 0

\* emptyWithParent: spreads emptyTrie, so the new object holds emptyTrie's own
\* children record
emptyWithParent(H, t, c) ==
  AllocNode(H, [H.nodes[emptyTrie] EXCEPT !.parent = t, !.root = FALSE, !.char = c])

(***************************************************************************)
(* Read-only operations                                                    *)
(***************************************************************************)
RECURSIVE has(_, _, _)
\* has(word, trie)
has(H, word, trie) ==
  IF H.nodes[trie].endOfWord /\ Len(word) = 0 THEN TRUE
  ELSE IF Len(word) = 0 \/ Lookup(Kids(H, trie), word[1]) = Null THEN FALSE
  ELSE has(H, Tail(word), Lookup(Kids(H, trie), word[1]))

RECURSIVE hasPrefixWhenExhausted(_, _, _)
\* hasPrefix that also accepts an input that ends inside the trie
hasPrefixWhenExhausted(H, word, trie) ==
  IF H.nodes[trie].endOfWord \/ Len(word) = 0 THEN TRUE
  ELSE IF Lookup(Kids(H, trie), word[1]) = Null THEN FALSE
  ELSE hasPrefixWhenExhausted(H, Tail(word), Lookup(Kids(H, trie), word[1]))

RECURSIVE hasPrefixWholeInput(_, _, _)
\* hasPrefix that accepts a terminal node only once the input is used up
hasPrefixWholeInput(H, word, trie) ==
  IF H.nodes[trie].endOfWord /\ Len(word) = 0 THEN TRUE
  ELSE IF Len(word) = 0 \/ Lookup(Kids(H, trie), word[1]) = Null THEN FALSE
  ELSE hasPrefixWholeInput(H, Tail(word), Lookup(Kids(H, trie), word[1]))

RECURSIVE hasPrefix(_, _, _)
\* hasPrefix(word, trie)
hasPrefix(H, word, trie) ==
  IF H.nodes[trie].endOfWord THEN TRUE
  ELSE IF Len(word) = 0 \/ Lookup(Kids(H, trie), word[1]) = Null THEN FALSE
  ELSE hasPrefix(H, Tail(word), Lookup(Kids(H, trie), word[1]))

\* what callback(trie.word) pushes: the stored word, or undefined when the
\* object has no word field
WordOf(node) == IF node.word # <<>> THEN node.word[1] ELSE <<"undefined">>

RECURSIVE forEach(_, _)
RECURSIVE forEachValues(_, _, _)
\* forEach with the callback of getWords: the words pushed, in order
forEach(H, trie) ==
  (IF H.nodes[trie].endOfWord THEN <<WordOf(H.nodes[trie])>> ELSE <<>>)
    \o forEachValues(H, Kids(H, trie), 1)

\* Object.values(trie.children).forEach(...) from the i-th value on
forEachValues(H, kids, i) ==
  IF i > Len(kids) THEN <<>>
  ELSE forEach(H, kids[i].v) \o forEachValues(H, kids, i + 1)

getWords(H, trie) == forEach(H, trie)

\* search that follows the first character of the query only
searchFirstChar(H, query, trie) ==
  IF Len(query) = 0 THEN getWords(H, trie)
  ELSE IF Lookup(Kids(H, trie), query[1]) = Null THEN <<>>
  ELSE getWords(H, Lookup(Kids(H, trie), query[1]))

RECURSIVE search(_, _, _)
\* search(query, trie)
search(H, query, trie) ==
  IF Len(query) = 0 THEN getWords(H, trie)
  ELSE IF Lookup(Kids(H, trie), query[1]) = Null THEN <<>>
  ELSE search(H, Tail(query), Lookup(Kids(H, trie), query[1]))

(***************************************************************************)
(* add                                                                     *)
(***************************************************************************)
\* { ...child, endOfWord: true, word }
MarkEndOfWord(node, word) == [node EXCEPT !.endOfWord = TRUE, !.word = <<word>>]

\* index <= word.length - 1: true of every index of the reduce
IsLastIndexAlways(index, word) == index <= Len(word)

\* index === word.length - 1, for the 1-based index of the model
IsLastIndex(index, word) == index = Len(word)

\* trie.children = { ...trie.children, [char]: child } : a new children record
\* is stored in the field of the object trie
ReplaceChildren(H, trie, char, child) ==
  [nodes |-> [H.nodes EXCEPT ![trie].children = Len(H.objs) + 1],
   objs  |-> Append(H.objs, SetKey(Kids(H, trie), char, child))]

RECURSIVE AddReduce(_, _, _, _)
\* the reduce over the characters of word, from the index-th one, with
\* accumulator trie
AddReduce(H, trie, word, index) ==
  IF index > Len(word) THEN H
  ELSE LET char == word[index]
           existing == Lookup(Kids(H, trie), char)
           H1 == IF existing # Null THEN H ELSE emptyWithParent(H, trie, char)
           H2 == copyTrie(H1, IF existing # Null THEN existing ELSE Last(H1))
           H3 == IF IsLastIndex(index, word)
                 THEN AllocNode(H2, MarkEndOfWord(H2.nodes[Last(H2)], word))
                 ELSE H2
           child == Last(H3)
       IN AddReduce(ReplaceChildren(H3, trie, char, child), child, word, index + 1)

\* the guard without its test of the empty word
AddReturnsInputNoEmpty(H, word, trie) == has(H, word, trie)

\* the guard without its test of has(word, trie)
AddReturnsInputNoHas(H, word, trie) == word = <<>>

\* if (!word || has(word, trie)) return trie
AddReturnsInput(H, word, trie) == word = <<>> \/ has(H, word, trie)

\* add(word, trie): the heap afterwards and the address returned
add(H, word, trie) ==
  IF AddReturnsInput(H, word, trie) THEN [h |-> H, r |-> trie]
  ELSE LET H1 == copyTrie(H, trie)
       IN [h |-> AddReduce(H1, Last(H1), word, 1), r |-> Last(H1)]

(***************************************************************************)
(* remove                                                                  *)
(***************************************************************************)
RECURSIVE RemoveWalk(_, _, _, _)
\* the for loop over chars from the i-th one; found is FALSE when the loop
\* left through "return root"
RemoveWalk(H, node, chars, i) ==
  IF i > Len(chars) THEN [h |-> H, node |-> node, found |-> TRUE]
  ELSE LET char == chars[i]
           child == Lookup(Kids(H, node), char)
       IN IF child = Null THEN [h |-> H, node |-> node, found |-> FALSE]
          ELSE LET H1 == copyTrie(H, child)
                   H2 == AllocNode(H1, [H1.nodes[Last(H1)] EXCEPT
                                          !.parent = node, !.root = FALSE, !.char = char])
               IN RemoveWalk(AssignChild(H2, node, char, Last(H2)), Last(H2), chars, i + 1)

\* { ...copyTrie(node) } : the flag is left as it was
ClearEndOfWordKept(node) == node

\* { ...copyTrie(node), endOfWord: false }
ClearEndOfWord(node) == [node EXCEPT !.endOfWord = FALSE]

\* the branch taken when the node of the word has children
RemoveUnmark(H, node, chars) ==
  LET H1 == copyTrie(H, node)
      H2 == AllocNode(H1, ClearEndOfWord(H1.nodes[Last(H1)]))
  IN AssignChild(H2, H2.nodes[node].parent, chars[Len(chars)], Last(H2))

\* the condition with the negation of hasChildren left out
IsDeadNodeMissingNot(H, node) ==
  hasChildren(H, node) /\ H.nodes[node].endOfWord = FALSE

\* the condition under which the while loop deletes node from its parent
IsDeadNode(H, node) == ~hasChildren(H, node) /\ H.nodes[node].endOfWord = FALSE

RECURSIVE RemoveClimb(_, _)
\* while (node.root === false) { ... node = node.parent }
RemoveClimb(H, node) ==
  IF H.nodes[node].root # FALSE THEN H
  ELSE RemoveClimb(IF IsDeadNode(H, node)
                   THEN DeleteChild(H, H.nodes[node].parent, H.nodes[node].char)
                   ELSE H,
                   H.nodes[node].parent)

\* remove(word, trie): the heap afterwards and the address returned
remove(H, word, trie) ==
  IF word = <<>> THEN [h |-> H, r |-> trie]
  ELSE LET H1 == copyTrie(H, trie)
           root == Last(H1)
           w == RemoveWalk(H1, root, word, 1)
           node == w.node
       IN IF ~w.found THEN [h |-> w.h, r |-> root]
          ELSE IF hasChildren(w.h, node) /\ ~isRoot(w.h, node)
          THEN [h |-> RemoveUnmark(w.h, node, word), r |-> root]
          ELSE IF ~hasChildren(w.h, node) /\ ~isRoot(w.h, node)
          THEN [h |-> RemoveClimb(DeleteChild(w.h, w.h.nodes[node].parent,
                                              w.h.nodes[node].char),
                                  w.h.nodes[node].parent),
                r |-> root]
          ELSE [h |-> RemoveClimb(w.h, node), r |-> root]

(***************************************************************************)
(* fromList and of                                                         *)
(***************************************************************************)
RECURSIVE Reduce(_, _, _)
\* words.reduce((trie, word) => add(word, trie), trie)
Reduce(H, words, trie) ==
  IF words = <<>> THEN [h |-> H, r |-> trie]
  ELSE LET a == add(H, Head(words), trie)
       IN Reduce(a.h, Tail(words), a.r)

\* fromList(words)
fromList(H, words) ==
  LET H1 == copyTrie(H, emptyTrie) IN Reduce(H1, words, Last(H1))

\* [...words, firstWord] for the arguments (firstWord, ...words)
OfOrder(args) == Append(Tail(args), Head(args))

\* of(firstWord, ...words), for a non-empty argument list
of(H, args) ==
  LET H1 == copyTrie(H, emptyTrie) IN Reduce(H1, OfOrder(args), Last(H1))

(***************************************************************************)
(* The library in use: a client holds every trie value it has obtained     *)
(* (tries) and calls add, remove, has, search and hasPrefix on any of them *)
(***************************************************************************)
Heap == [nodes |-> nodes, objs |-> objs]

\* the words of Queries that has reports as stored in trie
StoredWords(H, trie) == {v \in Queries : has(H, v, trie)}

NoBuild == [done |-> FALSE, args |-> <<>>, ofRoot |-> Null, listRoot |-> Null]

NoCall ==
  [op |-> "none", word |-> <<>>, arg |-> Null, res |-> Null, before |-> {},
   out |-> <<>>]

Init ==
  /\ nodes = InitHeap.nodes
  /\ objs = InitHeap.objs
  /\ tries = {emptyTrie}
  /\ last = NoCall
  /\ nops = 0
  /\ built = NoBuild

\* trie2 = add(word, trie)
Add(trie, word) ==
  /\ nops < MaxOps
  /\ LET a == add(Heap, word, trie)
     IN /\ nodes' = a.h.nodes
        /\ objs' = a.h.objs
        /\ tries' = tries \cup {a.r}
        /\ last' = [op |-> "add", word |-> word, arg |-> trie, res |-> a.r,
                    before |-> StoredWords(Heap, trie), out |-> <<>>]
  /\ nops' = nops + 1
  /\ UNCHANGED built

\* trie2 = remove(word, trie)
Remove(trie, word) ==
  /\ nops < MaxOps
  /\ LET a == remove(Heap, word, trie)
     IN /\ nodes' = a.h.nodes
        /\ objs' = a.h.objs
        /\ tries' = tries \cup {a.r}
        /\ last' = [op |-> "remove", word |-> word, arg |-> trie, res |-> a.r,
                    before |-> StoredWords(Heap, trie), out |-> <<>>]
  /\ nops' = nops + 1
  /\ UNCHANGED built

\* has(word, trie)
Has(trie, word) ==
  /\ nops < MaxOps
  /\ last' = [op |-> "has", word |-> word, arg |-> trie, res |-> trie,
              before |-> {}, out |-> has(Heap, word, trie)]
  /\ nops' = nops + 1
  /\ UNCHANGED <<nodes, objs, tries, built>>

\* search(query, trie)
Search(trie, query) ==
  /\ nops < MaxOps
  /\ last' = [op |-> "search", word |-> query, arg |-> trie, res |-> trie,
              before |-> {}, out |-> search(Heap, query, trie)]
  /\ nops' = nops + 1
  /\ UNCHANGED <<nodes, objs, tries, built>>

\* hasPrefix(word, trie)
HasPrefix(trie, word) ==
  /\ nops < MaxOps
  /\ last' = [op |-> "hasPrefix", word |-> word, arg |-> trie, res |-> trie,
              before |-> {},
              out |-> hasPrefix(Heap, word, trie)]
  /\ nops' = nops + 1
  /\ UNCHANGED <<nodes, objs, tries, built>>

Next ==
  \/ \E t \in tries, w \in Words : Add(t, w)
  \/ \E t \in tries, w \in Words : Remove(t, w)
  \/ \E t \in tries, w \in Words : Has(t, w)
  \/ \E t \in tries, q \in Words : Search(t, q)
  \/ \E t \in tries, w \in Words : HasPrefix(t, w)

Spec == Init /\ [][Next]_vars

(***************************************************************************)
(* The constructors in use: one call of of(...) and one of fromList([...]) *)
(* on the same arguments, then read-only calls on the tries they returned  *)
(***************************************************************************)
\* the words of the README example of hasPrefix
Secret == <<"s", "e", "c", "r", "e", "t">>
Token == <<"t", "o", "k", "e", "n">>
Jwt == <<"j", "w", "t">>
SecretText == <<"s", "e", "c", "r", "e", "t", "-", "t", "e", "x", "t">>
MySecret == <<"m", "y", "-", "s", "e", "c", "r", "e", "t">>

\* words given to of and fromList
CtorWords == { Secret, Token, Jwt, <<"a">>, <<"b">> }

\* words asked of the constructed tries
CtorQueries == { SecretText, MySecret, Jwt, <<>>, <<"b">> }

ArgLists == UNION { [1..n -> CtorWords] : n \in 1..MaxArgs }

\* t1 = of(...args); t2 = fromList(args)
Build(args) ==
  /\ ~built.done
  /\ LET o == of(Heap, args)
         f == fromList(o.h, args)
     IN /\ nodes' = f.h.nodes
        /\ objs' = f.h.objs
        /\ tries' = tries \cup {o.r, f.r}
        /\ built' = [done |-> TRUE, args |-> args, ofRoot |-> o.r, listRoot |-> f.r]
  /\ UNCHANGED <<last, nops>>

\* the tries returned by of and fromList, once they are built
BuiltTries == IF built.done THEN {built.ofRoot, built.listRoot} ELSE {}

NextCtor ==
  \/ \E args \in ArgLists : Build(args)
  \/ \E t \in BuiltTries, w \in CtorQueries : nops < MaxCtorQueries /\ Has(t, w)
  \/ \E t \in BuiltTries, q \in CtorQueries : nops < MaxCtorQueries /\ Search(t, q)
  \/ \E t \in BuiltTries, w \in CtorQueries : nops < MaxCtorQueries /\ HasPrefix(t, w)

SpecCtor == Init /\ [][NextCtor]_vars

(***************************************************************************)
(* Vocabulary of the properties                                            *)
(***************************************************************************)
\* p is a prefix of w (possibly w itself)
IsPrefix(p, w) == Len(p) <= Len(w) /\ SubSeq(w, 1, Len(p)) = p

SeqToSet(q) == {q[i] : i \in 1..Len(q)}

NoDuplicates(q) == \A i, j \in 1..Len(q) : q[i] = q[j] => i = j

RECURSIVE Struct(_, _)
\* the node structure below trie as a value: flags, stored value and the
\* children in property order, each with its own structure
Struct(H, trie) ==
  [endOfWord |-> H.nodes[trie].endOfWord,
   word |-> H.nodes[trie].word,
   root |-> H.nodes[trie].root,
   char |-> H.nodes[trie].char,
   children |-> [i \in 1..Len(Kids(H, trie)) |->
                   <<Kids(H, trie)[i].k, Struct(H, Kids(H, trie)[i].v)>>]]

\* the tries to examine in a state: all those obtained so far, in a state
\* reached by add or remove (or the initial one); a state reached by a
\* read-only call holds the very heap and tries of the state before it
ReadOnlyOps == {"has", "search", "hasPrefix"}

Obtained == IF last.op \in ReadOnlyOps THEN {} ELSE tries

(***************************************************************************)
(* C1  remove(w, t), w non-empty: a word v is stored in the result exactly *)
(* when v differs from w and v was stored in t.                            *)
(***************************************************************************)
C1_RemoveKeepsOthers ==
  (last.op = "remove" /\ last.word # <<>>) =>
    \A v \in Queries :
      has(Heap, v, last.res) <=> (v # last.word /\ v \in last.before)

\* a stored word that has a stored extension was removed, and the extension
\* is still there
C1_Witness ==
  /\ last.op = "remove"
  /\ last.word \in last.before
  /\ \E v \in last.before :
       v # last.word /\ IsPrefix(last.word, v) /\ has(Heap, v, last.res)
  /\ ~has(Heap, last.word, last.res)

(***************************************************************************)
(* C2  add(w, t), w non-empty: a word v is stored in the result exactly    *)
(* when v is w or v was stored in t; a prefix of w that was never added is *)
(* not stored.                                                             *)
(***************************************************************************)
C2_AddAddsOnlyWord ==
  (last.op = "add" /\ last.word # <<>>) =>
    \A v \in Queries :
      has(Heap, v, last.res) <=> (v = last.word \/ v \in last.before)

\* a three-letter word was added to a trie that stored none of its prefixes
C2_Witness ==
  /\ last.op = "add"
  /\ last.word = <<"b", "b", "b">>
  /\ last.word \notin last.before
  /\ has(Heap, last.word, last.res)
  /\ ~has(Heap, <<"b", "b">>, last.res)
  /\ ~has(Heap, <<"b">>, last.res)

(***************************************************************************)
(* C3  No call changes an object that existed before it: every Trie object *)
(* and every children record keeps its content, so every trie obtained     *)
(* earlier answers has and search as before.                               *)
(***************************************************************************)
C3_NoMutation ==
  [][ \/ (nodes' = nodes /\ objs' = objs)
      \/ LET After == [nodes |-> nodes', objs |-> objs']
         IN /\ \A n \in 1..Len(nodes) : nodes'[n] = nodes[n]
            /\ \A o \in 1..Len(objs) : objs'[o] = objs[o]
            /\ \A t \in tries :
                 /\ \A v \in Queries : has(After, v, t) = has(Heap, v, t)
                 /\ \A q \in Queries : search(After, q, t) = search(Heap, q, t)
    ]_vars

\* a stored word was removed into a new trie while the input still stores
\* what it stored before the call
C3_Witness ==
  /\ last.op = "remove"
  /\ last.word \in last.before
  /\ last.res # last.arg
  /\ StoredWords(Heap, last.arg) = last.before
  /\ StoredWords(Heap, last.res) # last.before

(***************************************************************************)
(* C4  search(q, t) lists exactly the stored words of t that q is a prefix *)
(* of, each once.                                                          *)
(***************************************************************************)
C4_SearchExact ==
  \A t \in Obtained :
    LET stored == StoredWords(Heap, t)
    IN \A q \in Queries :
         LET found == search(Heap, q, t)
         IN /\ SeqToSet(found) = {v \in stored : IsPrefix(q, v)}
            /\ NoDuplicates(found)

\* "ba" and "bbb" are stored and the query "bb" returns "bbb" alone, while the
\* empty query returns both
C4_Witness ==
  \E t \in tries :
    /\ has(Heap, <<"b", "a">>, t)
    /\ has(Heap, <<"b", "b", "b">>, t)
    /\ search(Heap, <<"b", "b">>, t) = << <<"b", "b", "b">> >>
    /\ Len(search(Heap, <<>>, t)) >= 2
    /\ search(Heap, <<"a", "b">>, t) = <<>>

(***************************************************************************)
(* C5  hasPrefix(x, t) is true exactly when some stored word of t is a     *)
(* prefix of x.                                                            *)
(***************************************************************************)
C5_HasPrefixExact ==
  \A t \in Obtained :
    LET stored == StoredWords(Heap, t)
    IN \A x \in Queries :
         hasPrefix(Heap, x, t) <=> \E v \in stored : IsPrefix(v, x)

\* "bbb" is stored without "b": "bb" has no stored prefix, "bbba" has one
C5_Witness ==
  \E t \in tries :
    /\ has(Heap, <<"b", "b", "b">>, t)
    /\ ~has(Heap, <<"b">>, t)
    /\ ~hasPrefix(Heap, <<"b", "b">>, t)
    /\ hasPrefix(Heap, <<"b", "b", "b", "a">>, t)

(***************************************************************************)
(* C6  add(w, emptyTrie) for a non-empty w stores w; for the empty word it *)
(* returns emptyTrie itself, in which neither has('') nor hasPrefix('')    *)
(* holds.                                                                  *)
(***************************************************************************)
C6_RoundTripNonEmpty ==
  (last.op = "add" /\ last.arg = emptyTrie) =>
    IF last.word # <<>>
    THEN has(Heap, last.word, last.res)
    ELSE /\ last.res = emptyTrie
         /\ ~has(Heap, <<>>, last.res)
         /\ ~hasPrefix(Heap, <<>>, last.res)

\* C6 as stated: has(w, add(w, emptyTrie)) for every word w, the empty one
\* included
C6_RoundTripEveryWord ==
  (last.op = "add" /\ last.arg = emptyTrie) => has(Heap, last.word, last.res)

\* "bbb" was added to emptyTrie and is stored in the trie returned
C6_Witness ==
  /\ last.op = "add"
  /\ last.arg = emptyTrie
  /\ last.word = <<"b", "b", "b">>
  /\ last.res # emptyTrie
  /\ has(Heap, last.word, last.res)

(***************************************************************************)
(* C7  For a stored word w and any suffix s, hasPrefix(w + s, t) is true;  *)
(* for a proper prefix p of w, hasPrefix(p + s, t) is true exactly when    *)
(* some stored word is a prefix of p + s.                                  *)
(***************************************************************************)
ProperPrefixes(w) == {SubSeq(w, 1, n) : n \in 0..(Len(w) - 1)}

C7_StoredWordIsPrefix ==
  \A t \in Obtained :
    LET stored == StoredWords(Heap, t)
    IN \A w \in stored : \A s \in Suffixes :
         /\ hasPrefix(Heap, w \o s, t)
         /\ \A p \in ProperPrefixes(w) :
              hasPrefix(Heap, p \o s, t) <=> \E v \in stored : IsPrefix(v, p \o s)

\* C7 as stated: hasPrefix(p + s, t) for every prefix p of a stored word
C7_EveryPrefixOfStored ==
  \A t \in Obtained :
    \A w \in StoredWords(Heap, t) : \A s \in Suffixes :
      \A p \in ProperPrefixes(w) \cup {w} : hasPrefix(Heap, p \o s, t)

\* "ba" is stored without "b": "ba" + "ab" has a stored prefix, "b" + "b"
\* has none
C7_Witness ==
  \E t \in tries :
    /\ has(Heap, <<"b", "a">>, t)
    /\ ~has(Heap, <<"b">>, t)
    /\ hasPrefix(Heap, <<"b", "a">> \o <<"a", "b">>, t)
    /\ ~hasPrefix(Heap, <<"b">> \o <<"b">>, t)

(***************************************************************************)
(* C8  README: with trie = of('secret', 'token', 'jwt'), hasPrefix of      *)
(* 'secret-text', of 'my-secret' and of 'jwt' are all true.                *)
(***************************************************************************)
C8_ReadmeExample ==
  (built.done /\ built.args = <<Secret, Token, Jwt>>) =>
    /\ hasPrefix(Heap, SecretText, built.ofRoot)
    /\ hasPrefix(Heap, MySecret, built.ofRoot)
    /\ hasPrefix(Heap, Jwt, built.ofRoot)

(***************************************************************************)
(* C9  add(w, add(w, t)) equals add(w, t): the same node structure, the    *)
(* same children of the root, the same stored words and the same           *)
(* search('') sequence.                                                    *)
(***************************************************************************)
C9_AddIdempotent ==
  last.op = "add" =>
    LET again == add(Heap, last.word, last.res)
    IN /\ Struct(again.h, again.r) = Struct(Heap, last.res)
       /\ Kids(again.h, again.r) = Kids(Heap, last.res)
       /\ StoredWords(again.h, again.r) = StoredWords(Heap, last.res)
       /\ search(again.h, <<>>, again.r) = search(Heap, <<>>, last.res)

\* a word that was not stored was added, and adding it again returns the
\* trie of the first call
C9_Witness ==
  /\ last.op = "add"
  /\ last.word # <<>>
  /\ last.word \notin last.before
  /\ last.res # last.arg
  /\ add(Heap, last.word, last.res).r = last.res

(***************************************************************************)
(* C10  of(first, ...rest) and fromList([first, ...rest]) return equal     *)
(* tries: the same node structure with the same children order in every    *)
(* node, and the same search('') sequence.                                 *)
(***************************************************************************)
C10_OfEqualsFromList ==
  built.done =>
    /\ Struct(Heap, built.ofRoot) = Struct(Heap, built.listRoot)
    /\ search(Heap, <<>>, built.ofRoot) = search(Heap, <<>>, built.listRoot)

(***************************************************************************)
(* Vocabulary of the structural properties                                 *)
(***************************************************************************)
RECURSIVE PathNodesFrom(_, _, _)
\* the nodes below n, each with the edge symbols that lead to it from the
\* node reached by path
PathNodesFrom(H, n, path) ==
  {<<path, n>>} \cup
  UNION { PathNodesFrom(H, Kids(H, n)[i].v, Append(path, Kids(H, n)[i].k)) :
            i \in 1..Len(Kids(H, n)) }

\* the nodes of the trie, each with its path from the root
PathNodes(H, trie) == PathNodesFrom(H, trie, <<>>)

\* the tries returned by add or remove, examined in the state the call leads to
Returned == IF last.op \in {"add", "remove"} THEN {last.res} ELSE {}

(***************************************************************************)
(* C11  In every trie returned by add or remove, every non-root node       *)
(* without children is terminal; removing the only stored word returns a   *)
(* trie with the structure of emptyTrie.                                   *)
(***************************************************************************)
C11_NoDanglingNode ==
  /\ \A t \in Returned : \A pn \in PathNodes(Heap, t) :
       (pn[1] # <<>> /\ ~hasChildren(Heap, pn[2])) => nodes[pn[2]].endOfWord
  /\ (last.op = "remove" /\ last.before = {last.word}) =>
       Struct(Heap, last.res) = Struct(Heap, emptyTrie)

\* "bbb" was removed from a trie storing "b" and "bbb": the node of "bb" is
\* gone and the climb stopped at the terminal node of "b"
C11_Witness ==
  /\ last.op = "remove"
  /\ last.word = <<"b", "b", "b">>
  /\ last.before = {<<"b">>, <<"b", "b", "b">>}
  /\ Lookup(Kids(Heap, last.res), "b") # Null
  /\ ~hasChildren(Heap, Lookup(Kids(Heap, last.res), "b"))
  /\ nodes[Lookup(Kids(Heap, last.res), "b")].endOfWord

(***************************************************************************)
(* C12  In every node of every trie returned by add or remove, the node    *)
(* has a stored value (word field) exactly when its endOfWord flag is      *)
(* true, and the value is the concatenation of the edge symbols from the   *)
(* root to the node.                                                       *)
(***************************************************************************)
C12_FlagAndValueAgree ==
  \A t \in Returned : \A pn \in PathNodes(Heap, t) :
    /\ (nodes[pn[2]].word # <<>>) <=> nodes[pn[2]].endOfWord
    /\ nodes[pn[2]].endOfWord => nodes[pn[2]].word = <<pn[1]>>

(***************************************************************************)
(* C13  In every trie returned by add or remove, for every node p and      *)
(* every entry c -> n of p.children: n is not a root, n.char is c and      *)
(* n.parent is p itself; the root has root = true and no parent.           *)
(***************************************************************************)
C13_ParentLinksConsistent ==
  \A t \in Returned :
    /\ nodes[t].root = TRUE
    /\ nodes[t].parent = Null
    /\ \A pn \in PathNodes(Heap, t) :
         \A i \in 1..Len(Kids(Heap, pn[2])) :
           LET c == Kids(Heap, pn[2])[i].k
               n == Kids(Heap, pn[2])[i].v
           IN /\ nodes[n].root = FALSE
              /\ nodes[n].char = c
              /\ nodes[n].parent = pn[2]

(***************************************************************************)
(* C14  add(w, t) and remove(w, t) that return a trie other than t: every  *)
(* node of the result on the path spelled by w is an object the call       *)
(* created, every other node of the result is the very object t holds at   *)
(* the same place, and every node of t off the path is in the result.      *)
(***************************************************************************)
RECURSIVE NodeAt(_, _, _)
\* the node reached from trie by path, if there is one
NodeAt(H, trie, path) ==
  IF path = <<>> THEN trie
  ELSE IF Lookup(Kids(H, trie), path[1]) = Null THEN Null
  ELSE NodeAt(H, Lookup(Kids(H, trie), path[1]), Tail(path))

C14_PathCopying ==
  [][ LET After == [nodes |-> nodes', objs |-> objs']
          r == last'.res
          t == last'.arg
          w == last'.word
      IN (last'.op \in {"add", "remove"} /\ r # t) =>
           /\ \A pn \in PathNodes(After, r) :
                IF IsPrefix(pn[1], w)
                THEN pn[2] > Len(nodes)
                ELSE pn[2] <= Len(nodes) /\ pn[2] = NodeAt(Heap, t, pn[1])
           /\ \A pn \in PathNodes(Heap, t) :
                ~IsPrefix(pn[1], w) => NodeAt(After, r, pn[1]) = pn[2]
    ]_vars

\* remove("b", t) on a trie that holds "a" and "ba": the nodes of "a" and of
\* "ba" are the objects of t, the root and the node of "b" are new ones
C14_Witness ==
  /\ last.op = "remove"
  /\ last.word = <<"b">>
  /\ last.res # last.arg
  /\ NodeAt(Heap, last.arg, <<"a">>) # Null
  /\ NodeAt(Heap, last.res, <<"a">>) = NodeAt(Heap, last.arg, <<"a">>)
  /\ NodeAt(Heap, last.arg, <<"b", "a">>) # Null
  /\ NodeAt(Heap, last.res, <<"b", "a">>) = NodeAt(Heap, last.arg, <<"b", "a">>)
  /\ NodeAt(Heap, last.res, <<"b">>) # Null
  /\ NodeAt(Heap, last.res, <<"b">>) # NodeAt(Heap, last.arg, <<"b">>)

(***************************************************************************)
(* The library in use on words whose symbols include digits: add and       *)
(* remove alone, on any trie obtained so far                               *)
(***************************************************************************)
\* words given to add and remove when the order of children is examined
OrderWords ==
  { <<"b">>, <<"a">>, <<"1">>, <<"0">>, <<"b", "a">>, <<"b", "1">> }

NextOrder ==
  \/ \E t \in tries, w \in OrderWords : Add(t, w)
  \/ \E t \in tries, w \in OrderWords : Remove(t, w)

SpecOrder == Init /\ [][NextOrder]_vars

\* the words of the example of search in the tests and the documentation
Hello == <<"h", "e", "l", "l", "o">>
HelloWorld == <<"h", "e", "l", "l", "o", " ", "w", "o", "r", "l", "d">>
World == <<"w", "o", "r", "l", "d">>

\* the edge symbols of the children of n, in property order
Keys(H, n) == [i \in 1..Len(Kids(H, n)) |-> Kids(H, n)[i].k]

\* the edge symbols of the node that trie holds at path; none if it holds none
KeysAt(H, trie, path) ==
  IF NodeAt(H, trie, path) = Null THEN <<>> ELSE Keys(H, NodeAt(H, trie, path))

KeyIndex(keys, c) == CHOOSE i \in 1..Len(keys) : keys[i] = c

\* a stored word comes before every stored word that extends it
PreOrder(found) ==
  \A i, j \in 1..Len(found) :
    (found[i] # found[j] /\ IsPrefix(found[i], found[j])) => i < j

\* the words found below the node at path come subtree by subtree, in the
\* order of the edge symbols of that node
FollowsKeys(found, path, keys) ==
  \A i, j \in 1..Len(found) :
    (/\ i < j
     /\ Len(found[i]) > Len(path)
     /\ Len(found[j]) > Len(path)
     /\ found[i][Len(path) + 1] # found[j][Len(path) + 1])
    => KeyIndex(keys, found[i][Len(path) + 1]) < KeyIndex(keys, found[j][Len(path) + 1])

\* search visits depth-first, parents first, children in property order
SearchIsDepthFirst ==
  \A t \in Returned :
    /\ PreOrder(search(Heap, <<>>, t))
    /\ \A pn \in PathNodes(Heap, t) :
         FollowsKeys(search(Heap, pn[1], t), pn[1], Keys(Heap, pn[2]))

\* the children that a node of the result shares with the node of the input
\* at the same place are in the same order in both
ExistingChildrenKeepOrder ==
  \A t \in Returned : \A pn \in PathNodes(Heap, t) :
    LET old == KeysAt(Heap, last.arg, pn[1])
        new == Keys(Heap, pn[2])
    IN SelectSeq(new, LAMBDA k : k \in SeqToSet(old))
         = SelectSeq(old, LAMBDA k : k \in SeqToSet(new))

\* after add, an edge symbol that is new in a node is the last one of it
NewSymbolIsLast ==
  \A t \in Returned : last.op = "add" =>
    \A pn \in PathNodes(Heap, t) :
      LET old == KeysAt(Heap, last.arg, pn[1])
          new == Keys(Heap, pn[2])
      IN /\ Len(new) <= Len(old) + 1
         /\ SubSeq(new, 1, Len(old)) = old

\* after add, an edge symbol that is new in a node is the last one of it when
\* it is no digit; the digits of a node come first, in ascending order
NewSymbolInPropertyOrder ==
  \A t \in Returned : last.op = "add" =>
    \A pn \in PathNodes(Heap, t) :
      LET old == KeysAt(Heap, last.arg, pn[1])
          new == Keys(Heap, pn[2])
          letters(q) == SelectSeq(q, LAMBDA k : ~IsIndexKey(k))
      IN /\ Len(new) <= Len(old) + 1
         /\ SeqToSet(old) \subseteq SeqToSet(new)
         /\ SubSeq(letters(new), 1, Len(letters(old))) = letters(old)
         /\ \A i, j \in 1..Len(new) :
              i < j => \/ ~IsIndexKey(new[j])
                       \/ (IsIndexKey(new[i]) /\ DigitVal(new[i]) < DigitVal(new[j]))

\* search('', of('hello', 'hello world', 'world'))
SearchExample ==
  LET o == of(InitHeap, <<Hello, HelloWorld, World>>)
  IN search(o.h, <<>>, o.r) = <<Hello, HelloWorld, World>>

(***************************************************************************)
(* C15  search returns the words depth-first, a stored word before the     *)
(* stored words that extend it; the subtrees of a node are visited in the  *)
(* property order of its children: the digit symbols first, ascending,     *)
(* then the other symbols in the order they were inserted; add and remove  *)
(* do not reorder the children a node already has.                         *)
(***************************************************************************)
C15_PropertyOrder ==
  /\ SearchIsDepthFirst
  /\ ExistingChildrenKeepOrder
  /\ NewSymbolInPropertyOrder
  /\ (nops = 0 => SearchExample)

\* C15 as stated: the subtrees of a node are visited in the order in which
\* their edge symbols were inserted, whatever the symbols
C15_InsertionOrder ==
  /\ SearchIsDepthFirst
  /\ ExistingChildrenKeepOrder
  /\ NewSymbolIsLast
  /\ (nops = 0 => SearchExample)

\* "1" was added after "b" and "ba": search lists "1" first, then "b" before
\* "ba"
C15_Witness ==
  /\ last.op = "add"
  /\ last.word = <<"1">>
  /\ search(Heap, <<>>, last.arg) = << <<"b">>, <<"b", "a">> >>
  /\ search(Heap, <<>>, last.res) = << <<"1">>, <<"b">>, <<"b", "a">> >>

====
